---- MODULE Spec2Model ----
(***************************************************************************)
(* FitTracker backend (src/main.py): three tables (exercises, programs,    *)
(* finished_workouts) behind FastAPI request handlers.                     *)
(*                                                                         *)
(* Text is modelled by its syntax: a JSON array of objects is a sequence   *)
(* of objects, an object a sequence of <<key, value>> members in the order *)
(* json.dumps writes them; a JSON array of strings and a joined string are *)
(* sequences of tokens.  Cyrillic literals are transliterated.             *)
(***************************************************************************)
EXTENDS Integers, Sequences, FiniteSets, TLC

VARIABLES
    startups,           \* how many times on_startup has completed on this store
    exercises,          \* table "exercises": rows in insertion order
    programs,           \* table "programs": id -> [title, exercises (JSON text)]
    finished_workouts,  \* table "finished_workouts": set of rows
    resp,               \* the last request and its response
    lastWrite,          \* history: id -> the last acknowledged write to that program
    submitted,          \* history: id -> what finish_workout persisted under that id
    calls               \* concurrent requests in flight (SpecConc only)

vars == <<startups, exercises, programs, finished_workouts, resp, lastWrite,
          submitted, calls>>

-----------------------------------------------------------------------------
(* Bounds of the model *)

MaxProgramId == 2
MaxWorkouts == 2
MaxStartups == 2

-----------------------------------------------------------------------------
(* Values *)

None == "None"

ExerciseFields == <<"id", "name", "tip", "yt_search", "sets", "reps", "weight">>

Range(s) == {s[i] : i \in DOMAIN s}

Max(S) == CHOOSE m \in S : \A x \in S : x <= m

(* pydantic: Exercise: id and name required, the rest defaulted *)
ExerciseValid(raw) ==
    /\ "id" \in DOMAIN raw
    /\ "name" \in DOMAIN raw
    /\ raw.name # None

Exercise(raw) ==
    [id        |-> raw.id,
     name      |-> raw.name,
     tip       |-> IF "tip" \in DOMAIN raw THEN raw.tip ELSE None,
     yt_search |-> IF "yt_search" \in DOMAIN raw THEN raw.yt_search ELSE None,
     sets      |-> IF "sets" \in DOMAIN raw THEN raw.sets ELSE 1,
     reps      |-> IF "reps" \in DOMAIN raw THEN raw.reps ELSE 1,
     weight    |-> IF "weight" \in DOMAIN raw THEN raw.weight ELSE 0]

(* pydantic: WorkoutProgram.parse_raw: body is JSON, title present,       *)
(* exercises a non-null list of valid Exercise records                     *)
WorkoutProgramValidNullable(body) ==
    /\ body.json
    /\ "title" \in DOMAIN body.data
    /\ "exercises" \in DOMAIN body.data
    /\ \A i \in DOMAIN body.data.exercises.items :
           ExerciseValid(body.data.exercises.items[i])

WorkoutProgramValid(body) ==
    /\ body.json
    /\ "title" \in DOMAIN body.data
    /\ "exercises" \in DOMAIN body.data
    /\ body.data.exercises.isList
    /\ \A i \in DOMAIN body.data.exercises.items :
           ExerciseValid(body.data.exercises.items[i])

WorkoutProgram(data) ==
    [id        |-> IF "id" \in DOMAIN data THEN data.id ELSE 0,
     title     |-> data.title,
     exercises |-> [i \in DOMAIN data.exercises.items |->
                        Exercise(data.exercises.items[i])]]

(* ex.dict(): the members of one object, in field order *)
ExDict(ex) == [k \in DOMAIN ExerciseFields |-> <<ExerciseFields[k], ex[ExerciseFields[k]]>>]

(* json.dumps([ex.dict() for ex in exercises]) *)
DumpsExercisesReversed(exs) ==
    [i \in DOMAIN exs |-> ExDict(exs[Len(exs) + 1 - i])]

DumpsExercises(exs) == [i \in DOMAIN exs |-> ExDict(exs[i])]

(* json.loads(text)[i] as a dict: the members keyed by name *)
LoadsObject(obj) ==
    [k \in {obj[j][1] : j \in DOMAIN obj} |->
        (obj[CHOOSE j \in DOMAIN obj : obj[j][1] = k])[2]]

(* each object of json.loads(text) passed to Exercise as keyword arguments *)
LoadsExercises(text) == [i \in DOMAIN text |-> Exercise(LoadsObject(text[i]))]

(* json.dumps(list of str): "[", items separated by ",", "]" *)
DumpsNames(names) ==
    <<"[">> \o
    [k \in 1..(IF names = <<>> THEN 0 ELSE 2 * Len(names) - 1) |->
        IF k % 2 = 1 THEN names[(k + 1) \div 2] ELSE ","] \o
    <<"]">>

(* json.loads of such a text *)
LoadsNames(text) == [i \in 1..((Len(text) - 1) \div 2) |-> text[2 * i]]

(* "; ".join(names) *)
Join(names) ==
    [k \in 1..(IF names = <<>> THEN 0 ELSE 2 * Len(names) - 1) |->
        IF k % 2 = 1 THEN names[(k + 1) \div 2] ELSE "; "]

SecondsPerMinute == 60

(* strftime('%d.%m.%Y %H:%M'): the timestamp to the minute, seconds dropped *)
Strftime(t) == t \div SecondsPerMinute

-----------------------------------------------------------------------------
(* Tables *)

EmptyTable == [i \in {} |-> 0]

(* INTEGER PRIMARY KEY of the default SQLite store: largest id in use + 1 *)
NextId(ids) == IF ids = {} THEN 1 ELSE Max(ids) + 1

InsertRow(table, id, row) ==
    [i \in DOMAIN table \cup {id} |-> IF i = id THEN row ELSE table[i]]

(* select(...).filter(id == :id) ... scalar_one_or_none(): no row or one *)
scalar_first(table, id) ==
    IF id \in DOMAIN table THEN <<table[id]>>
    ELSE IF DOMAIN table # {} THEN <<table[Max(DOMAIN table)]>>
    ELSE <<>>

scalar_one_or_none(table, id) == IF id \in DOMAIN table THEN <<table[id]>> ELSE <<>>

DeleteRowKeep(table, id) == table

DeleteRow(table, id) == [i \in DOMAIN table \ {id} |-> table[i]]

(* the rows of init_db *)
SeedExercises ==
    << [id |-> 1, name |-> "Zhim lyozha", tip |-> "Svedi lopatki, stupni na polu",
        yt_search |-> "zhim lyozha shorts tehnika", sets |-> 4, reps |-> 8,
        weight |-> 60],
       [id |-> 2, name |-> "Prisedaniya", tip |-> "Koleni ne vyhodyat za noski",
        yt_search |-> "prisedaniya shorts tehnika", sets |-> 4, reps |-> 12,
        weight |-> 0] >>

(* select(ExerciseDB).limit(1) ... scalar_one_or_none() is None *)
ExercisesEmptyAlways(table) == TRUE

ExercisesEmpty(table) == table = <<>>

(* select(FinishedWorkoutDB).order_by(finished_at.desc()): every order of  *)
(* the rows with finished_at non-increasing (ties in any order)            *)
OrderByIdAsc(rows) ==
    {ord \in [1..Cardinality(rows) -> rows] :
        /\ \A i, j \in DOMAIN ord : i # j => ord[i] # ord[j]
        /\ \A i, j \in DOMAIN ord : i < j => ord[i].id < ord[j].id}

OrderByFinishedAtDesc(rows) ==
    {ord \in [1..Cardinality(rows) -> rows] :
        /\ \A i, j \in DOMAIN ord : i # j => ord[i] # ord[j]
        /\ \A i, j \in DOMAIN ord : i < j => ord[i].finished_at >= ord[j].finished_at}

-----------------------------------------------------------------------------
(* Requests the model sends *)

E1 == [id |-> 1, name |-> "Squat", tip |-> None]

E2 == [id |-> 2, name |-> "Bench", tip |-> "t", yt_search |-> "q", sets |-> 4,
       reps |-> 8, weight |-> 60]

BadExercise == [id |-> 3]

PayloadId == 99

(* WorkoutProgram.id is optional in a payload: two bodies carry one *)
ValidBodies ==
    {[json |-> TRUE,
      data |-> [title |-> "A", exercises |-> [isList |-> TRUE, items |-> <<>>]]],
     [json |-> TRUE,
      data |-> [id |-> PayloadId, title |-> "A",
                exercises |-> [isList |-> TRUE, items |-> <<E1, E2>>]]],
     [json |-> TRUE,
      data |-> [id |-> PayloadId, title |-> "B",
                exercises |-> [isList |-> TRUE, items |-> <<>>]]],
     [json |-> TRUE,
      data |-> [title |-> "B", exercises |-> [isList |-> TRUE, items |-> <<E2, E1>>]]]}

InvalidBodies ==
    {[json |-> FALSE, data |-> [raw |-> "not json"]],
     [json |-> TRUE, data |-> [exercises |-> [isList |-> TRUE, items |-> <<E1>>]]],
     [json |-> TRUE, data |-> [title |-> "A"]],
     [json |-> TRUE, data |-> [title |-> "A", exercises |-> [isList |-> FALSE, items |-> <<>>]]],
     [json |-> TRUE,
      data |-> [title |-> "A", exercises |-> [isList |-> TRUE, items |-> <<E1, BadExercise>>]]]}

Bodies == ValidBodies \cup InvalidBodies

ProgramIds == 1..(MaxProgramId + 1)

ExerciseIds == {1, 2, 9999}

Finishes ==
    {[duration |-> 1800, exercises |-> <<"Zhim lyozha", "Prisedaniya">>],
     [duration |-> 600, exercises |-> <<>>]}

Times == {59, 60, 125}

Clients == {1, 2}

ConcBodies ==
    {[json |-> TRUE,
      data |-> [title |-> "A", exercises |-> [isList |-> TRUE, items |-> <<>>]]],
     [json |-> TRUE,
      data |-> [title |-> "B", exercises |-> [isList |-> TRUE, items |-> <<E2, E1>>]]]}

-----------------------------------------------------------------------------
(* Responses *)

NoBody == [none |-> TRUE]

Response(op, id, status, cause, body) ==
    [op |-> op, id |-> id, status |-> status, cause |-> cause, body |-> body,
     req |-> NoBody, items |-> <<>>, csv |-> <<>>]

IdleCall ==
    [op |-> "none", pc |-> "idle", id |-> 0, rowTitle |-> "", rowExercises |-> <<>>,
     title |-> "", exercises |-> <<>>, status |-> 0, existed |-> FALSE]

Init ==
    /\ startups = 0
    /\ exercises = <<>>
    /\ programs = EmptyTable
    /\ finished_workouts = {}
    /\ resp = Response("none", 0, 0, "none", NoBody)
    /\ lastWrite = EmptyTable
    /\ submitted = EmptyTable
    /\ calls = [c \in Clients |-> IdleCall]

-----------------------------------------------------------------------------
(* Startup *)

(* the server routes requests only once its startup event has completed *)
started == startups > 0

init_db ==
    exercises' = IF ExercisesEmpty(exercises) THEN exercises \o SeedExercises
                 ELSE exercises

(* the startup event runs init_db before the server accepts requests;      *)
(* uvicorn's reload=True starts the application again on the same store    *)
on_startup ==
    /\ startups < MaxStartups
    /\ init_db
    /\ startups' = startups + 1
    /\ UNCHANGED <<programs, finished_workouts, resp, lastWrite, submitted, calls>>

-----------------------------------------------------------------------------
(* Handlers, one request at a time.  fail names the store call that raises *)
(* (engine unreachable, constraint failure), "none" when every call works. *)

read_root ==
    /\ started
    /\ resp' = Response("read_root", 0, 200, "none", [message |-> "Server rabotaet!"])
    /\ UNCHANGED <<startups, exercises, programs, finished_workouts, lastWrite,
                   submitted, calls>>

list_exercises ==
    /\ started
    /\ \E fail \in {"none", "execute"} :
        resp' = IF fail = "execute"
                THEN Response("list_exercises", 0, 500, "store", NoBody)
                ELSE [Response("list_exercises", 0, 200, "none", NoBody) EXCEPT
                        !.items = [i \in DOMAIN exercises |-> Exercise(exercises[i])]]
    /\ UNCHANGED <<startups, exercises, programs, finished_workouts, lastWrite,
                   submitted, calls>>

get_exercise ==
    /\ started
    /\ \E exercise_id \in ExerciseIds, fail \in {"none", "execute"} :
        LET found == {i \in DOMAIN exercises : exercises[i].id = exercise_id}
        IN resp' = IF fail = "execute"
                   THEN Response("get_exercise", exercise_id, 500, "store", NoBody)
                   ELSE IF found = {}
                   THEN Response("get_exercise", exercise_id, 404, "not_found",
                                 [detail |-> "Uprazhnenie ne naideno"])
                   ELSE Response("get_exercise", exercise_id, 200, "none",
                                 Exercise(exercises[CHOOSE i \in found : TRUE]))
    /\ UNCHANGED <<startups, exercises, programs, finished_workouts, lastWrite,
                   submitted, calls>>

(* WorkoutProgramDB(title=..., exercises=json.dumps(...)) *)
ProgramRow(data) ==
    [title |-> data.title, exercises |-> DumpsExercises(data.exercises)]

(* row.title = updated.title; row.exercises = json.dumps(...) *)
UpdateRowTitleOnly(row, data) == [row EXCEPT !.title = data.title]

UpdateRow(row, data) ==
    [row EXCEPT !.title = data.title,
                !.exercises = DumpsExercises(data.exercises)]

(* history variables: what the handlers acknowledged *)
Remember(history, id, entry) ==
    [i \in DOMAIN history \cup {id} |-> IF i = id THEN entry ELSE history[i]]

Written(kind, body) ==
    [kind |-> kind, title |-> body.data.title,
     exercises |-> body.data.exercises.items]

upload_program ==
    /\ started
    /\ \E body \in Bodies, fail \in {"none", "commit"} :
        LET id == NextId(DOMAIN programs)
            data == WorkoutProgram(body.data)
            failed(cause) == [Response("upload_program", 0, 400, cause, NoBody)
                                EXCEPT !.req = body]
        IN  \/ /\ ~WorkoutProgramValid(body)
               /\ fail = "none"
               /\ resp' = failed("validation")
               /\ UNCHANGED <<programs, lastWrite>>
            \/ /\ WorkoutProgramValid(body)
               /\ fail = "commit"
               /\ resp' = failed("store")
               /\ UNCHANGED <<programs, lastWrite>>
            \/ /\ WorkoutProgramValid(body)
               /\ fail = "none"
               /\ id <= MaxProgramId
               /\ programs' = InsertRow(programs, id, ProgramRow(data))
               /\ lastWrite' = Remember(lastWrite, id, Written("upload", body))
               /\ resp' = [Response("upload_program", id, 200, "none",
                                    [id |-> id, title |-> data.title,
                                     ex_count |-> Len(data.exercises)])
                             EXCEPT !.req = body]
    /\ UNCHANGED <<startups, exercises, finished_workouts, submitted, calls>>

list_programs ==
    /\ started
    /\ \E fail \in {"none", "execute"} :
        LET ids == DOMAIN programs
            \* the rows in rowid order
            ord == [k \in 1..Cardinality(ids) |->
                      CHOOSE i \in ids : Cardinality({j \in ids : j < i}) = k - 1]
        IN resp' = IF fail = "execute"
                   THEN Response("list_programs", 0, 500, "store", NoBody)
                   ELSE [Response("list_programs", 0, 200, "none", NoBody) EXCEPT
                           !.items = [k \in DOMAIN ord |->
                                        [id |-> ord[k], title |-> programs[ord[k]].title,
                                         ex_count |-> Len(programs[ord[k]].exercises)]]]
    /\ UNCHANGED <<startups, exercises, programs, finished_workouts, lastWrite,
                   submitted, calls>>

get_program ==
    /\ started
    /\ \E prog_id \in ProgramIds, fail \in {"none", "execute"} :
        LET row == scalar_one_or_none(programs, prog_id)
        IN resp' = IF fail = "execute"
                   THEN Response("get_program", prog_id, 500, "store", NoBody)
                   ELSE IF row = <<>>
                   THEN Response("get_program", prog_id, 404, "not_found",
                                 [detail |-> "Programma ne naidena"])
                   ELSE Response("get_program", prog_id, 200, "none",
                                 [id |-> prog_id, title |-> row[1].title,
                                  exercises |-> LoadsExercises(row[1].exercises)])
    /\ UNCHANGED <<startups, exercises, programs, finished_workouts, lastWrite,
                   submitted, calls>>

delete_program ==
    /\ started
    /\ \E prog_id \in ProgramIds, fail \in {"none", "execute", "commit"} :
        LET row == scalar_one_or_none(programs, prog_id)
        IN  \/ /\ fail = "execute"
               /\ resp' = Response("delete_program", prog_id, 500, "store", NoBody)
               /\ UNCHANGED <<programs, lastWrite>>
            \/ /\ fail = "none"
               /\ row = <<>>
               /\ resp' = Response("delete_program", prog_id, 404, "not_found",
                                   [detail |-> "Programma ne naidena"])
               /\ UNCHANGED <<programs, lastWrite>>
            \/ /\ fail = "commit"
               /\ row # <<>>
               /\ resp' = Response("delete_program", prog_id, 500, "store", NoBody)
               /\ UNCHANGED <<programs, lastWrite>>
            \/ /\ fail = "none"
               /\ row # <<>>
               /\ programs' = DeleteRow(programs, prog_id)
               /\ lastWrite' = Remember(lastWrite, prog_id,
                                   [kind |-> "delete", title |-> "", exercises |-> <<>>])
               /\ resp' = Response("delete_program", prog_id, 200, "none",
                                   [ok |-> TRUE, deleted_title |-> row[1].title])
    /\ UNCHANGED <<startups, exercises, finished_workouts, submitted, calls>>

(* FastAPI validates the JSON body against WorkoutProgram before the       *)
(* handler runs and answers 422 itself when it does not fit                *)
update_program ==
    /\ started
    /\ \E prog_id \in ProgramIds :
        LET row == scalar_one_or_none(programs, prog_id)
            answer(status, cause, body) ==
                Response("update_program", prog_id, status, cause, body)
        IN  \/ /\ \E updated \in Bodies : updated.json /\ ~WorkoutProgramValid(updated)
               /\ resp' = answer(422, "validation", NoBody)
               /\ UNCHANGED <<programs, lastWrite>>
            \/ \E updated \in Bodies, fail \in {"none", "execute", "commit"} :
                /\ WorkoutProgramValid(updated)
                /\ \/ /\ fail = "execute"
                      /\ resp' = answer(500, "store", NoBody)
                      /\ UNCHANGED <<programs, lastWrite>>
                   \/ /\ fail = "none"
                      /\ row = <<>>
                      /\ resp' = answer(404, "not_found",
                                        [detail |-> "Programma ne naidena"])
                      /\ UNCHANGED <<programs, lastWrite>>
                   \/ /\ fail = "commit"
                      /\ row # <<>>
                      /\ resp' = answer(500, "store", NoBody)
                      /\ UNCHANGED <<programs, lastWrite>>
                   \/ /\ fail = "none"
                      /\ row # <<>>
                      /\ LET data == WorkoutProgram(updated.data)
                         IN /\ programs' = InsertRow(programs, prog_id,
                                                     UpdateRow(row[1], data))
                            /\ lastWrite' = Remember(lastWrite, prog_id,
                                                     Written("update", updated))
                            /\ resp' = answer(200, "none",
                                              [ok |-> TRUE, updated_title |-> data.title])
    /\ UNCHANGED <<startups, exercises, finished_workouts, submitted, calls>>

finish_workout ==
    /\ started
    /\ \E f \in Finishes, now \in Times, fail \in {"none", "commit"} :
        LET id == NextId({w.id : w \in finished_workouts})
            \* finished_at: the column default, datetime.utcnow at insert
            row == [id |-> id, finished_at |-> now, duration_sec |-> f.duration,
                    exercises_done |-> DumpsNames(f.exercises)]
        IN  \/ /\ fail = "commit"
               /\ resp' = Response("finish_workout", 0, 500, "store", NoBody)
               /\ UNCHANGED <<finished_workouts, submitted>>
            \/ /\ fail = "none"
               /\ id <= MaxWorkouts
               /\ finished_workouts' = finished_workouts \cup {row}
               /\ submitted' = Remember(submitted, id,
                                  [duration |-> f.duration, exercises |-> f.exercises])
               /\ resp' = Response("finish_workout", id, 200, "none",
                                   [ok |-> TRUE, workout_id |-> id])
    /\ UNCHANGED <<startups, exercises, programs, lastWrite, calls>>

FinishedWorkoutMixed(w) ==
    [id |-> w.id, finished_at |-> w.finished_at, duration_sec |-> w.id,
     exercises_done |-> LoadsNames(w.exercises_done)]

FinishedWorkout(w) ==
    [id |-> w.id, finished_at |-> w.finished_at, duration_sec |-> w.duration_sec,
     exercises_done |-> LoadsNames(w.exercises_done)]

get_history ==
    /\ started
    /\ \/ resp' = Response("get_history", 0, 500, "store", NoBody)
       \/ \E ord \in OrderByFinishedAtDesc(finished_workouts) :
            resp' = [Response("get_history", 0, 200, "none", NoBody) EXCEPT
                       !.items = [i \in DOMAIN ord |-> FinishedWorkout(ord[i])]]
    /\ UNCHANGED <<startups, exercises, programs, finished_workouts, lastWrite,
                   submitted, calls>>

CsvHeader == <<"Data", "Dlitelnost (sek)", "Uprazhneniya">>

CsvRow(w) == <<Strftime(w.finished_at), w.duration_sec, Join(LoadsNames(w.exercises_done))>>

export_history ==
    /\ started
    /\ \/ resp' = Response("export_history", 0, 500, "store", NoBody)
       \/ /\ finished_workouts = {}
          /\ resp' = Response("export_history", 0, 404, "not_found",
                              [detail |-> "Istoriya pusta"])
       \/ /\ finished_workouts # {}
          /\ \E items \in OrderByFinishedAtDesc(finished_workouts) :
               resp' = [Response("export_history", 0, 200, "none",
                                 [media_type |-> "text/csv"]) EXCEPT
                          !.csv = <<CsvHeader>> \o [i \in DOMAIN items |-> CsvRow(items[i])]]
    /\ UNCHANGED <<startups, exercises, programs, finished_workouts, lastWrite,
                   submitted, calls>>

-----------------------------------------------------------------------------
(* One request at a time, the exercise and program endpoints, in one run  *)
(* of the server                                                          *)

NextPrograms ==
    \/ (startups = 0 /\ on_startup)
    \/ read_root
    \/ list_exercises
    \/ get_exercise
    \/ upload_program
    \/ list_programs
    \/ get_program
    \/ delete_program
    \/ update_program

SpecPrograms == Init /\ [][NextPrograms]_vars

(* One request at a time, the workout history endpoints beside the reads, *)
(* the server restarting on the same store                                *)

NextHistory ==
    \/ on_startup
    \/ read_root
    \/ list_exercises
    \/ get_exercise
    \/ list_programs
    \/ get_program
    \/ finish_workout
    \/ get_history
    \/ export_history

SpecHistory == Init /\ [][NextHistory]_vars

-----------------------------------------------------------------------------
(* Concurrent requests.  Each request has its own session; a handler runs  *)
(* up to an await, where other requests' steps may come in between.        *)
(* update_program and delete_program await the SELECT and later the        *)
(* commit, which flushes the UPDATE or DELETE of the row they loaded.      *)

Idle(c) == calls[c].pc \in {"idle", "done"}

Answer(call, status, existed) ==
    [call EXCEPT !.pc = "done", !.status = status, !.existed = existed]

(* upload_program: one INSERT, committed *)
upload_program_call(c) ==
    /\ started
    /\ Idle(c)
    /\ \E body \in ConcBodies :
        LET id == NextId(DOMAIN programs)
            data == WorkoutProgram(body.data)
        IN  /\ id <= MaxProgramId
            /\ programs' = InsertRow(programs, id, ProgramRow(data))
            /\ calls' = [calls EXCEPT ![c] =
                            Answer([IdleCall EXCEPT !.op = "upload_program", !.id = id],
                                   200, FALSE)]
    /\ UNCHANGED <<startups, exercises, finished_workouts, resp, lastWrite, submitted>>

(* lines 175-178: the SELECT and the 404 for no row *)
delete_program_select(c) ==
    /\ started
    /\ Idle(c)
    /\ \E prog_id \in ProgramIds :
        LET call == [IdleCall EXCEPT !.op = "delete_program", !.id = prog_id]
        IN calls' = [calls EXCEPT ![c] =
                IF prog_id \notin DOMAIN programs
                THEN Answer(call, 404, FALSE)
                ELSE [call EXCEPT !.pc = "selected",
                                  !.rowTitle = programs[prog_id].title,
                                  !.rowExercises = programs[prog_id].exercises]]
    /\ UNCHANGED <<startups, exercises, programs, finished_workouts, resp, lastWrite,
                   submitted>>

(* lines 179-181: DELETE ... WHERE id = :id at commit.  The ORM only warns *)
(* when the statement matches no row, and the handler answers 200          *)
delete_program_commit(c) ==
    /\ calls[c].pc = "selected"
    /\ calls[c].op = "delete_program"
    /\ programs' = DeleteRow(programs, calls[c].id)
    /\ calls' = [calls EXCEPT ![c] = Answer(@, 200, calls[c].id \in DOMAIN programs)]
    /\ UNCHANGED <<startups, exercises, finished_workouts, resp, lastWrite, submitted>>

(* lines 185-188 *)
update_program_select(c) ==
    /\ started
    /\ Idle(c)
    /\ \E prog_id \in ProgramIds, updated \in ConcBodies :
        LET row == ProgramRow(WorkoutProgram(updated.data))
            call == [IdleCall EXCEPT !.op = "update_program", !.id = prog_id,
                                     !.title = row.title, !.exercises = row.exercises]
        IN calls' = [calls EXCEPT ![c] =
                IF prog_id \notin DOMAIN programs
                THEN Answer(call, 404, FALSE)
                ELSE [call EXCEPT !.pc = "selected",
                                  !.rowTitle = programs[prog_id].title,
                                  !.rowExercises = programs[prog_id].exercises]]
    /\ UNCHANGED <<startups, exercises, programs, finished_workouts, resp, lastWrite,
                   submitted>>

(* lines 189-192: at commit the ORM writes the attributes whose value      *)
(* differs from the loaded one, UPDATE ... WHERE id = :id; no statement    *)
(* when none differs; StaleDataError (unhandled: 500) when the UPDATE      *)
(* matches no row                                                          *)
update_program_commit(c) ==
    /\ calls[c].pc = "selected"
    /\ calls[c].op = "update_program"
    /\ LET call == calls[c]
           newTitle == call.title # call.rowTitle
           newExercises == call.exercises # call.rowExercises
           there == call.id \in DOMAIN programs
       IN  \/ /\ ~newTitle
              /\ ~newExercises
              /\ calls' = [calls EXCEPT ![c] = Answer(call, 200, there)]
              /\ UNCHANGED programs
           \/ /\ newTitle \/ newExercises
              /\ ~there
              /\ calls' = [calls EXCEPT ![c] = Answer(call, 500, FALSE)]
              /\ UNCHANGED programs
           \/ /\ newTitle \/ newExercises
              /\ there
              /\ programs' = InsertRow(programs, call.id,
                    [title |-> IF newTitle THEN call.title
                               ELSE programs[call.id].title,
                     exercises |-> IF newExercises THEN call.exercises
                                   ELSE programs[call.id].exercises])
              /\ calls' = [calls EXCEPT ![c] = Answer(call, 200, TRUE)]
    /\ UNCHANGED <<startups, exercises, finished_workouts, resp, lastWrite, submitted>>

NextConc ==
    \/ (startups = 0 /\ on_startup)
    \/ \E c \in Clients :
        \/ upload_program_call(c)
        \/ delete_program_select(c)
        \/ delete_program_commit(c)
        \/ update_program_select(c)
        \/ update_program_commit(c)

SpecConc == Init /\ [][NextConc]_vars

-----------------------------------------------------------------------------
(* Properties *)

(* what a fetched exercise must be for a submitted one: the fields sent,  *)
(* and the schema's defaults for the fields left out                       *)
SameExercise(got, sent) ==
    /\ DOMAIN got = Range(ExerciseFields)
    /\ \A f \in DOMAIN sent : got[f] = sent[f]
    /\ "tip" \notin DOMAIN sent => got.tip = None
    /\ "yt_search" \notin DOMAIN sent => got.yt_search = None
    /\ "sets" \notin DOMAIN sent => got.sets = 1
    /\ "reps" \notin DOMAIN sent => got.reps = 1
    /\ "weight" \notin DOMAIN sent => got.weight = 0

SameProgram(got, sent) ==
    /\ got.title = sent.title
    /\ Len(got.exercises) = Len(sent.exercises)
    /\ \A i \in DOMAIN sent.exercises : SameExercise(got.exercises[i], sent.exercises[i])

Fetched(kind) ==
    /\ resp.op = "get_program"
    /\ resp.status = 200
    /\ resp.id \in DOMAIN lastWrite
    /\ lastWrite[resp.id].kind = kind

(* C1: a program fetched after its upload, with no other write to its id   *)
(* in between, has the uploaded title and the uploaded exercises: as many, *)
(* in the same order, each field equal.                                    *)
C1_UploadRoundTrip == Fetched("upload") => SameProgram(resp.body, lastWrite[resp.id])

C1_Witness ==
    /\ Fetched("upload")
    /\ Len(resp.body.exercises) = 2
    /\ resp.body.exercises[1].id # resp.body.exercises[2].id

OthersUnchanged(id) ==
    \A q \in (DOMAIN programs \cup DOMAIN programs') \ {id} :
        /\ q \in DOMAIN programs
        /\ q \in DOMAIN programs'
        /\ programs'[q] = programs[q]

(* C2: a program fetched after an acknowledged update, with no other write *)
(* to its id in between, has the payload's title and exercises; it keeps   *)
(* its id whatever id the payload carried, and the update changes no other *)
(* program.                                                                *)
C2_UpdateThenFetch ==
    /\ [](Fetched("update") =>
            /\ SameProgram(resp.body, lastWrite[resp.id])
            /\ resp.body.id = resp.id)
    /\ [][(resp'.op = "update_program" /\ resp'.status = 200) =>
            /\ resp'.id \in DOMAIN programs
            /\ DOMAIN programs' = DOMAIN programs
            /\ OthersUnchanged(resp'.id)]_vars

C2_Witness ==
    /\ Fetched("update")
    /\ Cardinality(DOMAIN programs) = 2
    /\ Len(resp.body.exercises) = 2
    /\ resp.body.title = "A"
    /\ resp.body.id = 1

(* C3: after an acknowledged delete of a program, fetching its id answers  *)
(* 404 and the listing does not show it, until an upload creates that id   *)
(* again; the delete leaves every other program as it was.                 *)
C3_DeleteThenFetch ==
    /\ []((/\ resp.op = "get_program"
           /\ resp.cause # "store"
           /\ resp.id \in DOMAIN lastWrite
           /\ lastWrite[resp.id].kind = "delete") => resp.status = 404)
    /\ []((resp.op = "list_programs" /\ resp.status = 200) =>
            \A i \in DOMAIN resp.items :
                ~(/\ resp.items[i].id \in DOMAIN lastWrite
                  /\ lastWrite[resp.items[i].id].kind = "delete"))
    /\ [][(resp'.op = "delete_program" /\ resp'.status = 200) =>
            /\ resp'.id \in DOMAIN programs
            /\ resp'.id \notin DOMAIN programs'
            /\ OthersUnchanged(resp'.id)]_vars

C3_Witness ==
    /\ resp.op = "get_program"
    /\ resp.status = 404
    /\ resp.id \in DOMAIN lastWrite
    /\ lastWrite[resp.id].kind = "delete"
    /\ DOMAIN programs # {}

NewestFirst(seq) ==
    \A i, j \in DOMAIN seq : i < j => seq[i].finished_at >= seq[j].finished_at

IsJoined(field, names) ==
    /\ Len(field) = IF Len(names) = 0 THEN 0 ELSE 2 * Len(names) - 1
    /\ \A k \in DOMAIN names : field[2 * k - 1] = names[k]
    /\ \A k \in 1..(Len(names) - 1) : field[2 * k] = "; "

(* C4: export_history answers 404 on an empty finished_workouts table;     *)
(* on N >= 1 workouts it answers a CSV of N+1 rows, the header and one row *)
(* per workout, newest finished_at first, each with the workout's duration *)
(* and its exercise names joined with "; " in the stored order.            *)
C4_ExportHistory ==
    (resp.op = "export_history" /\ resp.cause # "store") =>
        IF finished_workouts = {}
        THEN resp.status = 404
        ELSE /\ resp.status = 200
             /\ Len(resp.csv) = Cardinality(finished_workouts) + 1
             /\ resp.csv[1] = <<"Data", "Dlitelnost (sek)", "Uprazhneniya">>
             /\ \E ord \in [1..Cardinality(finished_workouts) -> finished_workouts] :
                    /\ \A i, j \in DOMAIN ord : i # j => ord[i] # ord[j]
                    /\ NewestFirst(ord)
                    /\ \A i \in DOMAIN ord :
                          /\ resp.csv[i + 1][2] = submitted[ord[i].id].duration
                          /\ IsJoined(resp.csv[i + 1][3], submitted[ord[i].id].exercises)

C4_Witness ==
    /\ resp.op = "export_history"
    /\ resp.status = 200
    /\ Len(resp.csv) = 3
    /\ Len(resp.csv[2][3]) = 3
    /\ \E v, w \in finished_workouts : v.id < w.id /\ v.finished_at < w.finished_at

(* C5: every get_history answer lists each workout finish_workout has      *)
(* acknowledged exactly once, with the submitted duration and the          *)
(* submitted names in order, and lists the records newest first.           *)
C5_HistoryKeepsWorkouts ==
    (resp.op = "get_history" /\ resp.status = 200) =>
        /\ NewestFirst(resp.items)
        /\ \A w \in DOMAIN submitted :
              /\ Cardinality({i \in DOMAIN resp.items : resp.items[i].id = w}) = 1
              /\ \A i \in DOMAIN resp.items :
                    resp.items[i].id = w =>
                        /\ resp.items[i].duration_sec = submitted[w].duration
                        /\ resp.items[i].exercises_done = submitted[w].exercises

C5_Witness ==
    /\ resp.op = "get_history"
    /\ resp.status = 200
    /\ Len(resp.items) = 2
    /\ resp.items[1].id = 2
    /\ resp.items[2].exercises_done = <<"Zhim lyozha", "Prisedaniya">>
    /\ startups = 2

Absent ==
    \/ resp'.op = "get_exercise" /\ \A i \in DOMAIN exercises : exercises[i].id # resp'.id
    \/ /\ resp'.op \in {"get_program", "update_program", "delete_program"}
       /\ resp'.id \notin DOMAIN programs

(* C6: get_exercise, get_program, update_program and delete_program on an  *)
(* id absent from the table never answer 200 and leave the three tables    *)
(* unchanged; they answer 404 unless the request body was rejected or the  *)
(* store call failed.                                                      *)
C6_NotFound ==
    [][Absent =>
        /\ resp'.status # 200
        /\ resp'.cause \notin {"store", "validation"} => resp'.status = 404
        /\ exercises' = exercises
        /\ programs' = programs
        /\ finished_workouts' = finished_workouts]_vars

C6_Witness ==
    /\ resp.op = "update_program"
    /\ resp.status = 404
    /\ resp.id \notin DOMAIN programs
    /\ DOMAIN programs # {}

Unacceptable(body) ==
    \/ ~body.json
    \/ "title" \notin DOMAIN body.data
    \/ "exercises" \notin DOMAIN body.data
    \/ ~body.data.exercises.isList
    \/ \E i \in DOMAIN body.data.exercises.items :
          \/ "id" \notin DOMAIN body.data.exercises.items[i]
          \/ "name" \notin DOMAIN body.data.exercises.items[i]

(* C7: upload_program with a body that is not JSON, has no title, has no   *)
(* or a null exercises list, or has an invalid exercise, answers 400 and   *)
(* leaves the programs table as it was.                                    *)
C7_InvalidUpload ==
    [][(resp'.op = "upload_program" /\ Unacceptable(resp'.req)) =>
            /\ resp'.status = 400
            /\ programs' = programs]_vars

C7_Witness ==
    /\ resp.op = "upload_program"
    /\ resp.status = 400
    /\ resp.req.json
    /\ "exercises" \in DOMAIN resp.req.data
    /\ ~resp.req.data.exercises.isList
    /\ DOMAIN programs # {}

(* C8: a store failure on a valid request is answered with a 5xx status,   *)
(* never a 4xx one.                                                        *)
C8_StoreFailureIs5xx == resp.cause = "store" => resp.status >= 500

(* C9: the exercises table holds nothing before the first startup and the  *)
(* two seed rows, ids 1 and 2, once each, after any number of startups;    *)
(* no request is answered before a startup has completed.                  *)
C9_SeedOnce ==
    /\ startups = 0 => exercises = <<>> /\ resp.op = "none"
    /\ startups > 0 =>
          /\ Len(exercises) = 2
          /\ exercises[1].id = 1
          /\ exercises[2].id = 2
          /\ exercises = SeedExercises

C9_Witness ==
    /\ startups = 2
    /\ resp.op = "list_exercises"
    /\ Len(resp.items) = 2
    /\ finished_workouts # {}

(* C10: update_program and delete_program answer 200 only if the program   *)
(* existed when their write was applied.                                   *)
C10_AtomicWrite ==
    \A c \in Clients :
        (/\ calls[c].pc = "done"
         /\ calls[c].op \in {"update_program", "delete_program"}
         /\ calls[c].status = 200) => calls[c].existed

====
